---- MODULE Spec2Model ----
(***************************************************************************)
(* Scene automation engine of terrario-serra-backend: the kill switch log, *)
(* the automation session lifecycle, the scheduler tick, the evaluation    *)
(* pass of a scene (process_scene_rules / execute_rule_action) and the     *)
(* outlet switch endpoints.  Time is counted in minutes; temperatures and  *)
(* humidities are tenths of a unit (18.2 C is 182).                        *)
(***************************************************************************)
EXTENDS Integers, Sequences, FiniteSets, TLC

(***************************************************************************)
(* Bounds of the model.                                                    *)
(***************************************************************************)
MaxTime == 2
MaxSessions == 2
MaxKill == 2

(***************************************************************************)
(* The installation: zones, scenes, devices, outlets and sensors.          *)
(***************************************************************************)
Zones == {1, 2}
Scenes == {1, 2, 3}
SceneZone == <<1, 1, 2>>
Devices == {1, 2}
DeviceZone == <<1, 2>>
DeviceProvider == <<"tuya", "tuya">>
Outlets == {1, 2, 3}
OutletDevice == <<1, 1, 2>>
Sensors == {1, 2}
SensorZone == <<1, 2>>

None == -1
\* a threshold that float() cannot convert
NonNumeric == -2
Durations == {1, 2}
TempValues == {175, 180, 182}
HumValues == {600}
Outcomes == {"ok", "fail", "raise"}

VARIABLES
    now,            \* the clock (datetime.utcnow / func.now), in minutes
    killLog,        \* kill_switch table: is_active of each row, in id order
    mode,           \* Zone.mode
    sceneActive,    \* Scene.is_active
    rules,          \* scene_rules table: per scene, the rows in id order
    sessions,       \* automation_sessions table, in id order
    outlets,        \* outlets table: enabled, last_state, manual_override(_until)
    readings,       \* latest stored Reading of each sensor
    sensorZone,     \* Sensor.zone_id
    tuyaConfigured, \* TUYA_ACCESS_KEY and TUYA_SECRET_KEY are set
    localOffset,    \* datetime.now() minus datetime.utcnow() on the server, in minutes
    inflight,       \* per request handler, the switch command it is awaiting
    ticking,        \* the scheduler thread: the sessions a tick in progress found expired
    confirmed,      \* per outlet, the state of the last command the provider confirmed
    lastOp          \* the operation that ran last, the commands and passes it made

vars == <<now, killLog, mode, sceneActive, rules, sessions, outlets, readings,
          tuyaConfigured, localOffset, inflight, ticking, confirmed, lastOp,
          sensorZone>>

\* two requests may be served at a time; a handler that is not awaiting the
\* provider is idle
Handlers == {1, 2}

Idle == [pc |-> "idle", kind |-> "", outlet |-> 0, want |-> FALSE, result |-> ""]

NoneInFlight == [h \in Handlers |-> Idle]

\* the scheduler's thread between two ticks
NotTicking == [pc |-> "idle", seen |-> {}, at |-> 0]

OutletZone(o) == DeviceZone[OutletDevice[o]]

\* db.query(Outlet).join(Device).filter(Device.zone_id == zone_id)
OutletsOfZone(z) == {o \in Outlets : OutletZone(o) = z}

\* variant: the oldest row of the log instead of the latest
KillSwitchActiveFirst == Len(killLog) > 0 /\ killLog[1]
\* db.query(KillSwitch).order_by(KillSwitch.id.desc()).first() and its is_active
KillSwitchActive == Len(killLog) > 0 /\ killLog[Len(killLog)]

(***************************************************************************)
(* get_zone_sensor_data: the sensors of the zone in id order, each stored  *)
(* reading overwriting the entries of the one before.                      *)
(***************************************************************************)
NoData == [has_temperature |-> FALSE, temperature |-> 0, temperature_timestamp |-> 0,
           has_humidity |-> FALSE, humidity |-> 0, humidity_timestamp |-> 0]

RECURSIVE SensorDataFrom(_, _, _)
SensorDataFrom(s, z, data) ==
    IF s \notin Sensors THEN data
    ELSE LET r == readings[s]
             d1 == IF sensorZone[s] = z /\ r.has_temperature
                   THEN [data EXCEPT !.has_temperature = TRUE,
                                     !.temperature = r.temperature,
                                     !.temperature_timestamp = r.observed_at]
                   ELSE data
             d2 == IF sensorZone[s] = z /\ r.has_humidity
                   THEN [d1 EXCEPT !.has_humidity = TRUE,
                                   !.humidity = r.humidity,
                                   !.humidity_timestamp = r.observed_at]
                   ELSE d1
         IN SensorDataFrom(s + 1, z, d2)

get_zone_sensor_data(z) == SensorDataFrom(1, z, NoData)

(***************************************************************************)
(* evaluate_scene_condition.  A missing field is "" (metric, operator) or  *)
(* None (value); t is the time of the evaluation.                          *)
(***************************************************************************)
StaleAfter == 2

SensorValue(metric, data) ==
    IF metric = "temperature" /\ data.has_temperature THEN data.temperature
    ELSE IF metric = "humidity" /\ data.has_humidity THEN data.humidity
    ELSE None

SensorTimestamp(metric, data) ==
    IF metric = "temperature" THEN data.temperature_timestamp
    ELSE data.humidity_timestamp

\* variant: an operator that is not one of the five compares as true
CompareLenient(operator, v, threshold) ==
    IF operator = "<=" THEN v <= threshold
    ELSE IF operator = ">=" THEN v >= threshold
    ELSE IF operator = "<" THEN v < threshold
    ELSE IF operator = ">" THEN v > threshold
    ELSE IF operator = "==" THEN v = threshold
    ELSE TRUE

Compare(operator, v, threshold) ==
    IF operator = "<=" THEN v <= threshold
    ELSE IF operator = ">=" THEN v >= threshold
    ELSE IF operator = "<" THEN v < threshold
    ELSE IF operator = ">" THEN v > threshold
    ELSE IF operator = "==" THEN v = threshold
    ELSE FALSE

\* datetime.now() is the server's local time, while observed_at is stored by
\* the database's now(), which is UTC.
LocalTime(t) == t + localOffset

evaluate_scene_condition(condition, data, t) ==
    IF condition.condition = "" \/ condition.operator = "" \/ condition.value = None
    THEN FALSE
    ELSE IF condition.value = NonNumeric THEN FALSE
    ELSE IF condition.value = 0 THEN FALSE
    ELSE IF SensorValue(condition.condition, data) = None THEN FALSE
    ELSE IF LocalTime(t) - SensorTimestamp(condition.condition, data) > StaleAfter THEN FALSE
    ELSE Compare(condition.operator, SensorValue(condition.condition, data), condition.value)

(***************************************************************************)
(* Scene settings (ranges used by normalize_scene_settings, and the JSON   *)
(* rules and outlet_configs used by the manual evaluate endpoint).         *)
(***************************************************************************)
DefaultTempMin == 200
DefaultTempMax == 260
DefaultHumMin == 550
DefaultHumMax == 700

\* Scene.settings of each scene: no ranges stored, one JSON rule turning on
\* the outlets named by its keys (outlet_configs resolves a key to an outlet).
SceneSettings ==
    <<[has_ranges |-> FALSE, temp_min |-> 0, temp_max |-> 0, hum_min |-> 0, hum_max |-> 0,
       rules_on |-> <<[id |-> 1, flag |-> TRUE]>>],
      [has_ranges |-> FALSE, temp_min |-> 0, temp_max |-> 0, hum_min |-> 0, hum_max |-> 0,
       rules_on |-> <<[id |-> 2, flag |-> TRUE]>>],
      [has_ranges |-> FALSE, temp_min |-> 0, temp_max |-> 0, hum_min |-> 0, hum_max |-> 0,
       rules_on |-> <<[id |-> 3, flag |-> TRUE], [id |-> 9, flag |-> TRUE]>>]>>

\* temp_min = float(tr.get("min", 20)) if tr.get("min") else 20, and so on
RangeOr(st, v, default) == IF st.has_ranges /\ v # 0 THEN v ELSE default

NormalizeRule(rule, st) ==
    LET c == rule.condition
        tmin == RangeOr(st, st.temp_min, DefaultTempMin)
        tmax == RangeOr(st, st.temp_max, DefaultTempMax)
        hmin == RangeOr(st, st.hum_min, DefaultHumMin)
        hmax == RangeOr(st, st.hum_max, DefaultHumMax)
    IN IF c.value # 0 THEN rule
       ELSE IF c.condition = "temperature"
            THEN [rule EXCEPT !.condition.value = IF c.operator = "<=" THEN tmin ELSE tmax]
       ELSE IF c.condition = "humidity"
            THEN [rule EXCEPT !.condition.value = IF c.operator = "<=" THEN hmin ELSE hmax]
       ELSE rule

\* normalize_scene_settings on the scene_rules rows of one scene
normalize_scene_settings(rs, scene) ==
    [rs EXCEPT ![scene] = [i \in DOMAIN rs[scene] |-> NormalizeRule(rs[scene][i], SceneSettings[scene])]]

(***************************************************************************)
(* The work of a handler is threaded through a context: the outlets and    *)
(* rules tables as the handler's database session sees them, the commands  *)
(* it issued (one entry per executed_switches entry) and the passes it ran.*)
(* Operators return the set of contexts the provider's answers allow.      *)
(***************************************************************************)
Context == [outlets |-> outlets, confirmed |-> confirmed, rules |-> rules,
            cmds |-> <<>>, passes |-> <<>>]

Cmd(o, want, r) == [outlet |-> o, state |-> want, result |-> r]

Simulation(o) == ~(tuyaConfigured /\ DeviceProvider[OutletDevice[o]] = "tuya")

\* variant: last_state takes the wanted state whatever the provider answers
SwitchResultsOptimistic(c, o, want) ==
    IF Simulation(o)
    THEN {[c EXCEPT !.outlets[o].last_state = want, !.confirmed[o] = want,
                    !.cmds = Append(@, Cmd(o, want, "simulated"))]}
    ELSE {[c EXCEPT !.outlets[o].last_state = want,
                    !.confirmed[o] = IF r = "ok" THEN want ELSE @,
                    !.cmds = Append(@, Cmd(o, want, r))] : r \in Outcomes}

\* lines 229-252 / 266-289: one switch through the provider, or simulated
SwitchResults(c, o, want) ==
    IF Simulation(o)
    THEN {[c EXCEPT !.outlets[o].last_state = want, !.confirmed[o] = want,
                    !.cmds = Append(@, Cmd(o, want, "simulated"))]}
    ELSE {IF r = "ok"
          THEN [c EXCEPT !.outlets[o].last_state = want, !.confirmed[o] = want,
                         !.cmds = Append(@, Cmd(o, want, r))]
          ELSE [c EXCEPT !.cmds = Append(@, Cmd(o, want, r))] : r \in Outcomes}

\* variant: an entry is looked up among all outlets, not those of the zone
StepEntryAnyZone(e, want, zone, c) ==
    IF e.id \in Outlets /\ e.flag
    THEN IF c.outlets[e.id].last_state = want THEN {c}
         ELSE SwitchResults(c, e.id, want)
    ELSE {c}

\* variant: once a command of the action has failed or raised, the entries
\* after it are not processed
StepEntryBlocking(e, want, zone, c) ==
    IF c.cmds # <<>> /\ c.cmds[Len(c.cmds)].result \in {"fail", "raise"} THEN {c}
    ELSE IF e.id \in OutletsOfZone(zone) /\ e.flag
    THEN IF c.outlets[e.id].last_state = want THEN {c}
         ELSE SwitchResults(c, e.id, want)
    ELSE {c}

\* one entry of action['on'] (want = TRUE) or action['off'] (want = FALSE)
StepEntry(e, want, zone, c) ==
    IF e.id \in OutletsOfZone(zone) /\ e.flag
    THEN IF c.outlets[e.id].last_state = want THEN {c}
         ELSE SwitchResults(c, e.id, want)
    ELSE {c}

RECURSIVE ExecEntries(_, _, _, _)
ExecEntries(entries, want, zone, C) ==
    IF entries = <<>> THEN C
    ELSE ExecEntries(Tail(entries), want, zone,
                     UNION {StepEntry(Head(entries), want, zone, c) : c \in C})

\* variant: every outlet the on entries do not name is switched off
execute_rule_action_implicit_off(action, zone, C) ==
    LET named(o) == \E k \in DOMAIN action.on : action.on[k].id = o /\ action.on[k].flag
        others == [o \in 1..Cardinality(Outlets) |-> [id |-> o, flag |-> ~named(o)]]
    IN ExecEntries(others, FALSE, zone, ExecEntries(action.on, TRUE, zone, C))

\* variant: the off entries are processed before the on entries
execute_rule_action_off_first(action, zone, C) ==
    ExecEntries(action.on, TRUE, zone, ExecEntries(action.off, FALSE, zone, C))

\* execute_rule_action: the on entries, then the off entries, then commit
execute_rule_action(action, zone, C) ==
    ExecEntries(action.off, FALSE, zone, ExecEntries(action.on, TRUE, zone, C))

(***************************************************************************)
(* process_scene_rules.                                                    *)
(***************************************************************************)
RuleIds(rs, scene) == DOMAIN rs[scene]

\* the orders order_by(SceneRule.priority.desc()) may return: priority
\* descending, rows of equal priority in any order
IsPermutation(q, S) == Len(q) = Cardinality(S) /\ {q[i] : i \in DOMAIN q} = S

Orders(S) == {q \in [1..Cardinality(S) -> S] : IsPermutation(q, S)}

PriorityDescOrders(rs, scene) ==
    {q \in Orders(RuleIds(rs, scene)) :
        \A i, j \in DOMAIN q : i < j => rs[scene][q[i]].priority >= rs[scene][q[j]].priority}

RECURSIVE RunRules(_, _, _, _, _)
RunRules(order, scene, data, t, C) ==
    IF order = <<>> THEN C
    ELSE RunRules(Tail(order), scene, data, t,
            UNION {IF evaluate_scene_condition(c.rules[scene][Head(order)].condition, data, t)
                   THEN execute_rule_action(c.rules[scene][Head(order)].action, SceneZone[scene], {c})
                   ELSE {c} : c \in C})

Pass(scene, kind, sess, ran) ==
    [scene |-> scene, kind |-> kind, session |-> sess, ran |-> ran]

\* process_scene_rules(scene_id, db) at time t; kind and sess describe the
\* caller (for the record of passes only)
process_scene_rules(scene, t, kind, sess, c) ==
    IF ~sceneActive[scene]
    THEN {[c EXCEPT !.passes = Append(@, Pass(scene, kind, sess, FALSE))]}
    ELSE LET c1 == [c EXCEPT !.rules = normalize_scene_settings(@, scene)]
             data == get_zone_sensor_data(SceneZone[scene])
         IN IF data = NoData \/ RuleIds(c1.rules, scene) = {}
            THEN {[c1 EXCEPT !.passes = Append(@, Pass(scene, kind, sess, FALSE))]}
            ELSE UNION {RunRules(q, scene, data, t,
                          {[c1 EXCEPT !.passes = Append(@, Pass(scene, kind, sess, TRUE))]})
                        : q \in PriorityDescOrders(c1.rules, scene)}

(***************************************************************************)
(* Automation sessions.                                                    *)
(***************************************************************************)
Running(sess) == sess.is_active /\ sess.status = "running"

RunningIds(ss) == {i \in DOMAIN ss : Running(ss[i])}

\* .filter(zone_id == z, is_active == True, status == "running").first()
RunningOfZone(ss, z) == {i \in RunningIds(ss) : ss[i].zone_id = z}

FirstRunning(ss, z) == CHOOSE i \in RunningOfZone(ss, z) : \A j \in RunningOfZone(ss, z) : i <= j

\* variant: a session is expired only after its duration has been exceeded
ExpiredStrict(sess, t) == Running(sess) /\ t - sess.started_at > sess.duration_minutes
\* variant: the expiry does not look at the session's status
ExpiredAnyStatus(sess, t) == t - sess.started_at >= sess.duration_minutes
\* elapsed_time >= total_duration (the tick), time_remaining <= 0 (the status poll)
Expired(sess, t) == Running(sess) /\ t - sess.started_at >= sess.duration_minutes

\* variant: an expired session gets its status only
CompleteStatusOnly(sess) == [sess EXCEPT !.status = "completed"]

Complete(sess) == [sess EXCEPT !.is_active = FALSE, !.status = "completed"]

\* variant: the status is set, is_active is left
StopKeepActive(sess) == [sess EXCEPT !.status = "stopped"]

Stop(sess) == [sess EXCEPT !.is_active = FALSE, !.status = "stopped"]

\* scheduler.py lines 36-50: the expiry loop of the tick and its commit
\* variant: the tick leaves the sessions that are due as they are
ExpireSessionsLater(ss, t) == ss

ExpireSessions(ss, t) == [i \in DOMAIN ss |-> IF Expired(ss[i], t) THEN Complete(ss[i]) ELSE ss[i]]

\* variant: the expiry loop leaves the zone's mode alone
ExpireModesKeep(ss, m, t) == m

ExpireModes(ss, m, t) ==
    [z \in Zones |-> IF \E i \in DOMAIN ss : Expired(ss[i], t) /\ ss[i].zone_id = z
                     THEN "manual" ELSE m[z]]

\* scheduler.py lines 57-70: one pass per running session, in query order
RECURSIVE EvalSessions(_, _, _, _)
EvalSessions(i, ss, t, C) ==
    IF i > Len(ss) THEN C
    ELSE EvalSessions(i + 1, ss, t,
            IF Running(ss[i])
            THEN UNION {process_scene_rules(ss[i].scene_id, t, "session", i, c) : c \in C}
            ELSE C)

MarkEvaluated(ss, t) ==
    [i \in DOMAIN ss |-> IF Running(ss[i]) THEN [ss[i] EXCEPT !.last_evaluation_at = t] ELSE ss[i]]

\* scheduler.py lines 72-85: the scenes flagged active that no running session names
SessionSceneIds(ss) == {ss[i].scene_id : i \in RunningIds(ss)}

RECURSIVE EvalStandalone(_, _, _, _)
EvalStandalone(scene, ss, t, C) ==
    IF scene \notin Scenes THEN C
    ELSE EvalStandalone(scene + 1, ss, t,
            IF sceneActive[scene] /\ scene \notin SessionSceneIds(ss)
            THEN UNION {process_scene_rules(scene, t, "standalone", 0, c) : c \in C}
            ELSE C)

(***************************************************************************)
(* The record of the operation that ran last.                              *)
(***************************************************************************)
\* routers/events.py publish_event puts an event on the queue of every
\* subscriber of /api/v1/events/sse.  No router, service or scheduler job
\* calls it: the events an operation publishes are none.
published_events == <<>>

Op(name, ok, zone, scene, cmds, passes) ==
    [name |-> name, ok |-> ok, zone |-> zone, scene |-> scene, rule |-> 0,
     cmds |-> cmds, passes |-> passes, events |-> published_events]

Rejected(name, zone, scene) == Op(name, FALSE, zone, scene, <<>>, <<>>)

Commit(c) ==
    /\ outlets' = c.outlets
    /\ confirmed' = c.confirmed
    /\ rules' = c.rules

(***************************************************************************)
(* scheduler.py evaluate_all_active_scenes: one scheduler tick.            *)
(***************************************************************************)
\* lines 59 and 78: asyncio.get_event_loop() raises in a thread that has no
\* event loop (the worker threads of the BackgroundScheduler) and
\* run_until_complete raises on a loop that is already running; the except
\* of each session and of each scene catches it, and no pass runs.  loop says
\* whether the calling thread has a usable event loop.
TickContexts(ss1, loop) ==
    IF loop THEN EvalStandalone(1, ss1, now, EvalSessions(1, ss1, now, {Context}))
    ELSE {Context}

evaluate_all_active_scenes ==
    IF KillSwitchActive
    THEN /\ lastOp' = Rejected("tick", 0, 0)
         /\ UNCHANGED <<now, killLog, mode, sceneActive, rules, sessions, outlets,
                        readings, tuyaConfigured, localOffset, inflight, confirmed, ticking, sensorZone>>
    ELSE LET ss1 == ExpireSessions(sessions, now)
         IN \E loop \in BOOLEAN : \E c \in TickContexts(ss1, loop) :
               /\ Commit(c)
               /\ sessions' = IF loop THEN MarkEvaluated(ss1, now) ELSE ss1
               /\ mode' = ExpireModes(sessions, mode, now)
               /\ lastOp' = Op("tick", TRUE, 0, 0, c.cmds, c.passes)
               /\ UNCHANGED <<now, killLog, sceneActive, readings, tuyaConfigured, localOffset, inflight, ticking, sensorZone>>

(***************************************************************************)
(* main.py kill_switch_middleware: a POST, PUT, DELETE or PATCH to a path  *)
(* outside the whitelist is refused while the kill switch is active.       *)
(***************************************************************************)
\* variant: no gate
MutationAllowedAlways == TRUE

MutationAllowed == ~KillSwitchActive

(***************************************************************************)
(* routers/automation.py                                                   *)
(***************************************************************************)
NewSession(z, s, d, t) ==
    [zone_id |-> z, scene_id |-> s, is_active |-> TRUE, status |-> "running",
     started_at |-> t, duration_minutes |-> d, last_evaluation_at |-> None]

\* variant: a start leaves the zone's running session running
SupersedeNone(ss, z) == ss

\* lines 101-110: the running session of the zone, if any, is stopped
Supersede(ss, z) ==
    IF RunningOfZone(ss, z) = {} THEN ss
    ELSE [ss EXCEPT ![FirstRunning(ss, z)] = Stop(@)]

\* variant: a scene without rules is accepted
StartAcceptedWithoutRules(z, s) ==
    /\ MutationAllowed
    /\ z \in Zones
    /\ s \in Scenes
    /\ SceneZone[s] = z

\* lines 82-99: zone 404, scene 404, scene of another zone 400, no rules 400
StartAccepted(z, s) ==
    /\ MutationAllowed
    /\ z \in Zones
    /\ s \in Scenes
    /\ SceneZone[s] = z
    /\ Len(rules[s]) > 0

start_automation_session(z, s, d) ==
    IF ~StartAccepted(z, s)
    THEN /\ lastOp' = Rejected("start", z, s)
         /\ UNCHANGED <<now, killLog, mode, sceneActive, rules, sessions, outlets,
                        readings, tuyaConfigured, localOffset, inflight, confirmed, ticking, sensorZone>>
    ELSE /\ Len(sessions) < MaxSessions
         /\ LET ss1 == Append(Supersede(sessions, z), NewSession(z, s, d, now))
                n == Len(ss1)
            IN \E c \in process_scene_rules(s, now, "start", n, Context) :
                  /\ Commit(c)
                  /\ sessions' = [ss1 EXCEPT ![n].last_evaluation_at = now]
                  /\ mode' = [mode EXCEPT ![z] = "automatic"]
                  /\ lastOp' = Op("start", TRUE, z, s, c.cmds, c.passes)
                  /\ UNCHANGED <<now, killLog, sceneActive, readings, tuyaConfigured, localOffset, inflight, ticking, sensorZone>>

\* variant: a stop for a zone without a running session succeeds and sets
\* the zone to manual
stop_automation_session_lenient(z) ==
    IF ~MutationAllowed
    THEN /\ lastOp' = Rejected("stop", z, 0)
         /\ UNCHANGED <<now, killLog, mode, sceneActive, rules, sessions, outlets,
                        readings, tuyaConfigured, localOffset, inflight, confirmed, ticking, sensorZone>>
    ELSE /\ sessions' = IF RunningOfZone(sessions, z) = {} THEN sessions
                        ELSE [sessions EXCEPT ![FirstRunning(sessions, z)] = Stop(@)]
         /\ mode' = [mode EXCEPT ![z] = "manual"]
         /\ lastOp' = Op("stop", TRUE, z, 0, <<>>, <<>>)
         /\ UNCHANGED <<now, killLog, sceneActive, rules, outlets, readings,
                        tuyaConfigured, localOffset, inflight, confirmed, ticking, sensorZone>>

stop_automation_session(z) ==
    IF ~MutationAllowed \/ RunningOfZone(sessions, z) = {}
    THEN /\ lastOp' = Rejected("stop", z, 0)
         /\ UNCHANGED <<now, killLog, mode, sceneActive, rules, sessions, outlets,
                        readings, tuyaConfigured, localOffset, inflight, confirmed, ticking, sensorZone>>
    ELSE /\ sessions' = [sessions EXCEPT ![FirstRunning(sessions, z)] = Stop(@)]
         /\ mode' = [mode EXCEPT ![z] = "manual"]
         /\ lastOp' = Op("stop", TRUE, z, 0, <<>>, <<>>)
         /\ UNCHANGED <<now, killLog, sceneActive, rules, outlets, readings,
                        tuyaConfigured, localOffset, inflight, confirmed, ticking, sensorZone>>

\* GET /zone/{zone_id}/status: not gated by the middleware
get_zone_automation_status(z) ==
    IF RunningOfZone(sessions, z) # {} /\ Expired(sessions[FirstRunning(sessions, z)], now)
    THEN /\ sessions' = [sessions EXCEPT ![FirstRunning(sessions, z)] = Complete(@)]
         /\ mode' = [mode EXCEPT ![z] = "manual"]
         /\ lastOp' = Op("status", TRUE, z, 0, <<>>, <<>>)
         /\ UNCHANGED <<now, killLog, sceneActive, rules, outlets, readings,
                        tuyaConfigured, localOffset, inflight, confirmed, ticking, sensorZone>>
    ELSE /\ lastOp' = Op("status", TRUE, z, 0, <<>>, <<>>)
         /\ UNCHANGED <<now, killLog, mode, sceneActive, rules, sessions, outlets,
                        readings, tuyaConfigured, localOffset, inflight, confirmed, ticking, sensorZone>>

(***************************************************************************)
(* routers/devices.py: the switch endpoints.                               *)
(***************************************************************************)
OutletsOfDevice(d) == {o \in Outlets : OutletDevice[o] = d}

\* the answers the provider can give to one call made by a devices endpoint;
\* get_tuya_provider raises when the credentials are not configured
ProviderAnswers == IF tuyaConfigured THEN Outcomes ELSE {"raise"}

switch_outlet(d, o, state) ==
    IF ~MutationAllowed \/ OutletDevice[o] # d \/ ~outlets[o].enabled
    THEN /\ lastOp' = Rejected("switch_outlet", 0, 0)
         /\ UNCHANGED <<now, killLog, mode, sceneActive, rules, sessions, outlets,
                        readings, tuyaConfigured, localOffset, inflight, confirmed, ticking, sensorZone>>
    ELSE \E r \in ProviderAnswers :
            /\ outlets' = IF r = "ok" THEN [outlets EXCEPT ![o].last_state = state] ELSE outlets
            /\ confirmed' = IF r = "ok" THEN [confirmed EXCEPT ![o] = state] ELSE confirmed
            /\ lastOp' = Op("switch_outlet", r = "ok", 0, 0,
                            IF tuyaConfigured THEN <<Cmd(o, state, r)>> ELSE <<>>, <<>>)
            /\ UNCHANGED <<now, killLog, mode, sceneActive, rules, sessions, readings,
                           tuyaConfigured, localOffset, inflight, ticking, sensorZone>>

\* one provider call switching switch_1..switch_5 of the device
switch_all_outlets(d, state) ==
    IF ~MutationAllowed
    THEN /\ lastOp' = Rejected("switch_all", 0, 0)
         /\ UNCHANGED <<now, killLog, mode, sceneActive, rules, sessions, outlets,
                        readings, tuyaConfigured, localOffset, inflight, confirmed, ticking, sensorZone>>
    ELSE \E r \in ProviderAnswers :
            /\ outlets' = [o \in Outlets |->
                             IF r = "ok" /\ o \in OutletsOfDevice(d) /\ outlets[o].enabled
                             THEN [outlets[o] EXCEPT !.last_state = state] ELSE outlets[o]]
            /\ confirmed' = [o \in Outlets |->
                             IF r = "ok" /\ o \in OutletsOfDevice(d) THEN state ELSE confirmed[o]]
            /\ lastOp' = Op("switch_all", r = "ok", 0, 0,
                            IF tuyaConfigured THEN <<Cmd(0, state, r)>> ELSE <<>>, <<>>)
            /\ UNCHANGED <<now, killLog, mode, sceneActive, rules, sessions, readings,
                           tuyaConfigured, localOffset, inflight, ticking, sensorZone>>

\* lines 181-184: the enabled outlets of the zone
EnabledOfZone(z) == {o \in OutletsOfZone(z) : outlets[o].enabled}

\* lines 206-211: tuya.switch_zone_outlets switches the outlets one by one;
\* the contexts after the outlets from o on, where failed marks a raise
RECURSIVE ZoneSwitchFrom(_, _, _, _)
ZoneSwitchFrom(o, z, state, C) ==
    IF o \notin Outlets THEN C
    ELSE ZoneSwitchFrom(o + 1, z, state,
            IF o \in EnabledOfZone(z)
            THEN UNION {IF c.failed THEN {c}
                        ELSE {[c EXCEPT !.confirmed[o] = IF r = "ok" THEN state ELSE @,
                                        !.cmds = IF tuyaConfigured THEN Append(@, Cmd(o, state, r)) ELSE @,
                                        !.failed = (r = "raise")] : r \in ProviderAnswers}
                        : c \in C}
            ELSE C)

\* lines 213-215: last_state of every selected outlet is set, then commit
ZoneStates(z, state, c) ==
    [o \in Outlets |-> IF o \in EnabledOfZone(z)
                       THEN [outlets[o] EXCEPT !.last_state = state] ELSE outlets[o]]

switch_zone_outlets(z, state) ==
    IF ~MutationAllowed
    THEN /\ lastOp' = Rejected("switch_zone", z, 0)
         /\ UNCHANGED <<now, killLog, mode, sceneActive, rules, sessions, outlets,
                        readings, tuyaConfigured, localOffset, inflight, confirmed, ticking, sensorZone>>
    ELSE \E c \in ZoneSwitchFrom(1, z, state,
                    {[confirmed |-> confirmed, cmds |-> <<>>, failed |-> FALSE]}) :
            /\ outlets' = IF c.failed THEN outlets ELSE ZoneStates(z, state, c)
            /\ confirmed' = c.confirmed
            /\ lastOp' = Op("switch_zone", ~c.failed, z, 0, c.cmds, <<>>)
            /\ UNCHANGED <<now, killLog, mode, sceneActive, rules, sessions, readings,
                           tuyaConfigured, localOffset, inflight, ticking, sensorZone>>

(***************************************************************************)
(* routers/scenes.py                                                       *)
(***************************************************************************)
\* variant: the other scenes of the zone keep their flags
activate_scene_only(s) ==
    IF ~MutationAllowed
    THEN /\ lastOp' = Rejected("activate_scene", 0, s)
         /\ UNCHANGED <<now, killLog, mode, sceneActive, rules, sessions, outlets,
                        readings, tuyaConfigured, localOffset, inflight, confirmed, ticking, sensorZone>>
    ELSE /\ sceneActive' = [sceneActive EXCEPT ![s] = TRUE]
         /\ lastOp' = Op("activate_scene", TRUE, 0, s, <<>>, <<>>)
         /\ UNCHANGED <<now, killLog, mode, rules, sessions, outlets, readings,
                        tuyaConfigured, localOffset, inflight, confirmed, ticking, sensorZone>>

activate_scene(s) ==
    IF ~MutationAllowed
    THEN /\ lastOp' = Rejected("activate_scene", 0, s)
         /\ UNCHANGED <<now, killLog, mode, sceneActive, rules, sessions, outlets,
                        readings, tuyaConfigured, localOffset, inflight, confirmed, ticking, sensorZone>>
    ELSE /\ sceneActive' = [x \in Scenes |-> IF x = s THEN TRUE
                                             ELSE IF SceneZone[x] = SceneZone[s] THEN FALSE
                                             ELSE sceneActive[x]]
         /\ lastOp' = Op("activate_scene", TRUE, 0, s, <<>>, <<>>)
         /\ UNCHANGED <<now, killLog, mode, rules, sessions, outlets, readings,
                        tuyaConfigured, localOffset, inflight, confirmed, ticking, sensorZone>>

\* PUT /{scene_id}: scene.is_active = scene_update.is_active
update_scene(s, flag) ==
    IF ~MutationAllowed
    THEN /\ lastOp' = Rejected("update_scene", 0, s)
         /\ UNCHANGED <<now, killLog, mode, sceneActive, rules, sessions, outlets,
                        readings, tuyaConfigured, localOffset, inflight, confirmed, ticking, sensorZone>>
    ELSE /\ sceneActive' = [sceneActive EXCEPT ![s] = flag]
         /\ lastOp' = Op("update_scene", TRUE, 0, s, <<>>, <<>>)
         /\ UNCHANGED <<now, killLog, mode, rules, sessions, outlets, readings,
                        tuyaConfigured, localOffset, inflight, confirmed, ticking, sensorZone>>

\* POST /{scene_id}/evaluate: the 'on' actions of the scene's JSON rule; a
\* raise of the provider ends the rule (the try wraps the loop of the rule)
RECURSIVE ManualEntries(_, _, _)
ManualEntries(entries, zone, C) ==
    IF entries = <<>> THEN C
    ELSE LET e == Head(entries)
         IN ManualEntries(Tail(entries), zone,
              UNION {IF c.failed \/ ~e.flag \/ e.id \notin OutletsOfZone(zone) THEN {c}
                     ELSE IF ~tuyaConfigured
                     THEN {[c EXCEPT !.outlets[e.id].last_state = TRUE, !.confirmed[e.id] = TRUE,
                                     !.cmds = Append(@, Cmd(e.id, TRUE, "simulated"))]}
                     ELSE {[c EXCEPT !.outlets[e.id].last_state = IF r = "ok" THEN TRUE ELSE @,
                                     !.confirmed[e.id] = IF r = "ok" THEN TRUE ELSE @,
                                     !.cmds = Append(@, Cmd(e.id, TRUE, r)),
                                     !.failed = (r = "raise")] : r \in Outcomes}
                     : c \in C})

evaluate_scene_rules(s) ==
    IF ~MutationAllowed \/ ~sceneActive[s]
    THEN /\ lastOp' = Rejected("evaluate", 0, s)
         /\ UNCHANGED <<now, killLog, mode, sceneActive, rules, sessions, outlets,
                        readings, tuyaConfigured, localOffset, inflight, confirmed, ticking, sensorZone>>
    ELSE \E c \in ManualEntries(SceneSettings[s].rules_on, SceneZone[s],
                    {[outlets |-> outlets, confirmed |-> confirmed, cmds |-> <<>>, failed |-> FALSE]}) :
            /\ outlets' = c.outlets
            /\ confirmed' = c.confirmed
            /\ lastOp' = Op("evaluate", TRUE, 0, s, c.cmds, <<>>)
            /\ UNCHANGED <<now, killLog, mode, sceneActive, rules, sessions, readings,
                           tuyaConfigured, localOffset, inflight, ticking, sensorZone>>

(***************************************************************************)
(* routers/kill_switch.py                                                  *)
(***************************************************************************)
get_kill_switch_status ==
    /\ killLog = <<>>
    /\ killLog' = <<FALSE>>
    /\ lastOp' = Op("kill_status", TRUE, 0, 0, <<>>, <<>>)
    /\ UNCHANGED <<now, mode, sceneActive, rules, sessions, outlets, readings,
                   tuyaConfigured, localOffset, inflight, confirmed, ticking, sensorZone>>

\* variant: a row is added without looking at the latest one
activate_unchecked ==
    /\ Len(killLog) < MaxKill
    /\ killLog' = Append(killLog, TRUE)
    /\ lastOp' = Op("kill_activate", TRUE, 0, 0, <<>>, <<>>)
    /\ UNCHANGED <<now, mode, sceneActive, rules, sessions, outlets, readings,
                   tuyaConfigured, localOffset, inflight, confirmed, ticking, sensorZone>>

activate_kill_switch ==
    IF KillSwitchActive
    THEN /\ lastOp' = Rejected("kill_activate", 0, 0)
         /\ UNCHANGED <<now, killLog, mode, sceneActive, rules, sessions, outlets,
                        readings, tuyaConfigured, localOffset, inflight, confirmed, ticking, sensorZone>>
    ELSE /\ Len(killLog) < MaxKill
         /\ killLog' = Append(killLog, TRUE)
         /\ lastOp' = Op("kill_activate", TRUE, 0, 0, <<>>, <<>>)
         /\ UNCHANGED <<now, mode, sceneActive, rules, sessions, outlets, readings,
                        tuyaConfigured, localOffset, inflight, confirmed, ticking, sensorZone>>

\* variant: the latest row is updated in place instead of a row being added
deactivate_in_place ==
    IF ~KillSwitchActive
    THEN /\ lastOp' = Rejected("kill_deactivate", 0, 0)
         /\ UNCHANGED <<now, killLog, mode, sceneActive, rules, sessions, outlets,
                        readings, tuyaConfigured, localOffset, inflight, confirmed, ticking, sensorZone>>
    ELSE /\ killLog' = [killLog EXCEPT ![Len(killLog)] = FALSE]
         /\ lastOp' = Op("kill_deactivate", TRUE, 0, 0, <<>>, <<>>)
         /\ UNCHANGED <<now, mode, sceneActive, rules, sessions, outlets, readings,
                        tuyaConfigured, localOffset, inflight, confirmed, ticking, sensorZone>>

deactivate_kill_switch ==
    IF ~KillSwitchActive
    THEN /\ lastOp' = Rejected("kill_deactivate", 0, 0)
         /\ UNCHANGED <<now, killLog, mode, sceneActive, rules, sessions, outlets,
                        readings, tuyaConfigured, localOffset, inflight, confirmed, ticking, sensorZone>>
    ELSE /\ Len(killLog) < MaxKill
         /\ killLog' = Append(killLog, FALSE)
         /\ lastOp' = Op("kill_deactivate", TRUE, 0, 0, <<>>, <<>>)
         /\ UNCHANGED <<now, mode, sceneActive, rules, sessions, outlets, readings,
                        tuyaConfigured, localOffset, inflight, confirmed, ticking, sensorZone>>

(***************************************************************************)
(* The environment: a sensor reading is stored, time passes.               *)
(***************************************************************************)
NoReading == [has_temperature |-> FALSE, temperature |-> 0,
              has_humidity |-> FALSE, humidity |-> 0, observed_at |-> 0]

ReadingRow(temp, hum, t) ==
    [has_temperature |-> TRUE, temperature |-> temp,
     has_humidity |-> TRUE, humidity |-> hum, observed_at |-> t]

StoreReading(sensor, temp, hum) ==
    /\ readings' = [readings EXCEPT ![sensor] = ReadingRow(temp, hum, now)]
    /\ lastOp' = Op("reading", TRUE, 0, 0, <<>>, <<>>)
    /\ UNCHANGED <<now, killLog, mode, sceneActive, rules, sessions, outlets,
                   tuyaConfigured, localOffset, inflight, confirmed, ticking, sensorZone>>

Advance ==
    /\ now < MaxTime
    /\ now' = now + 1
    /\ lastOp' = Op("advance", TRUE, 0, 0, <<>>, <<>>)
    /\ UNCHANGED <<killLog, mode, sceneActive, rules, sessions, outlets, readings,
                   tuyaConfigured, localOffset, inflight, confirmed, ticking, sensorZone>>

(***************************************************************************)
(* Installations: the rows the scene_rules and outlets tables hold.        *)
(***************************************************************************)
Cond(metric, operator, value) == [condition |-> metric, operator |-> operator, value |-> value]

Entry(id, flag) == [id |-> id, flag |-> flag]

Rule(cond, on, off, priority) ==
    [condition |-> cond, action |-> [on |-> on, off |-> off], priority |-> priority]

\* scene 1: heating below 18 C (priority 1), off from 18 C on (priority 2);
\* scene 2: a humidity rule; scene 3 (zone 2) also names an outlet of zone 1
ThermostatRules ==
    <<  <<Rule(Cond("temperature", "<=", 180), <<Entry(1, TRUE)>>, <<>>, 1),
          Rule(Cond("temperature", ">=", 180), <<>>, <<Entry(1, TRUE)>>, 2)>>,
        <<Rule(Cond("humidity", ">=", 500), <<Entry(2, TRUE)>>, <<Entry(1, TRUE)>>, 0)>>,
        <<Rule(Cond("temperature", ">=", 180), <<Entry(3, TRUE), Entry(1, TRUE)>>, <<>>, 0)>>  >>

\* scene 1: one rule naming outlet 1 in its on and in its off set;
\* scene 2: no rules
OverlapRules ==
    <<  <<Rule(Cond("temperature", ">=", 180), <<Entry(1, TRUE), Entry(2, TRUE)>>, <<Entry(1, TRUE)>>, 1)>>,
        <<>>,
        <<Rule(Cond("temperature", "<=", 180), <<>>, <<Entry(3, TRUE)>>, 0)>>  >>

RuleConfigs == {ThermostatRules, OverlapRules}

OutletRow(enabled, override, until) ==
    [enabled |-> enabled, last_state |-> FALSE,
     manual_override |-> override, manual_override_until |-> until]

DefaultOutlets == [o \in Outlets |-> OutletRow(TRUE, FALSE, None)]

\* outlet 1 under a manual override that ends at minute 2
OverrideOutlets == [DefaultOutlets EXCEPT ![1] = OutletRow(TRUE, TRUE, 2)]

OutletConfigs == {DefaultOutlets, OverrideOutlets}

Fresh ==
    /\ now = 0
    /\ killLog = <<>>
    /\ mode = [z \in Zones |-> "manual"]
    /\ sceneActive = [s \in Scenes |-> FALSE]
    /\ sessions = <<>>
    /\ confirmed = [o \in Outlets |-> FALSE]
    /\ lastOp = Op("init", TRUE, 0, 0, <<>>, <<>>)

Tick == evaluate_all_active_scenes

Start == \E z \in Zones, s \in Scenes, d \in Durations : start_automation_session(z, s, d)

StopSession == \E z \in Zones : stop_automation_session(z)

StatusPoll == \E z \in Zones : get_zone_automation_status(z)

SwitchOutlet == \E d \in Devices, o \in Outlets, b \in BOOLEAN : switch_outlet(d, o, b)

SwitchAll == \E d \in Devices, b \in BOOLEAN : switch_all_outlets(d, b)

SwitchZone == \E z \in Zones, b \in BOOLEAN : switch_zone_outlets(z, b)

ActivateScene == \E s \in Scenes : activate_scene(s)

UpdateScene == \E s \in Scenes, b \in BOOLEAN : update_scene(s, b)

EvaluateScene == \E s \in Scenes : evaluate_scene_rules(s)

KillStatus == get_kill_switch_status

KillActivate == activate_kill_switch

KillDeactivate == deactivate_kill_switch

Reading == \E s \in Sensors, v \in TempValues, h \in HumValues : StoreReading(s, v, h)

(***************************************************************************)
(* The installation of the lifecycle specifications: the thermostat rules, *)
(* every outlet enabled, live credentials, and a stored reading per zone   *)
(* (17.5 C in zone 1, 18.0 C in zone 2).                                   *)
(***************************************************************************)
LifecycleScenes == {1, 3}

StartL == \E z \in Zones, s \in LifecycleScenes, d \in Durations : start_automation_session(z, s, d)

StartScene1 == \E d \in Durations : start_automation_session(1, 1, d)

ActivateSceneL == \E s \in LifecycleScenes : activate_scene(s)

Init ==
    /\ Fresh
    /\ readings = <<ReadingRow(175, 600, 0), ReadingRow(180, 600, 0)>>
    /\ sensorZone = SensorZone
    /\ rules = ThermostatRules
    /\ outlets = DefaultOutlets
    /\ tuyaConfigured = TRUE
    /\ localOffset = 0
    /\ inflight = NoneInFlight
    /\ ticking = NotTicking

(***************************************************************************)
(* Spec: sessions, scene activation and the scheduler.                     *)
(***************************************************************************)
Next ==
    \/ Tick
    \/ StartL
    \/ ActivateSceneL
    \/ Advance

Spec == Init /\ [][Next]_vars

(***************************************************************************)
(* SpecKill: the kill switch against the scheduler, sessions of zone 1.    *)
(***************************************************************************)
NextKill ==
    \/ Tick
    \/ StartScene1
    \/ ActivateSceneL
    \/ KillStatus
    \/ KillActivate
    \/ KillDeactivate
    \/ Advance

SpecKill == Init /\ [][NextKill]_vars

(***************************************************************************)
(* SpecSessions: the session operations of both zones and the kill switch. *)
(***************************************************************************)
NextSessions ==
    \/ Tick
    \/ StartL
    \/ StopSession
    \/ StatusPoll
    \/ KillActivate
    \/ KillDeactivate
    \/ Advance

SpecSessions == Init /\ [][NextSessions]_vars

(***************************************************************************)
(* SpecPass: automation passes (of a tick, of a start) of the scenes of     *)
(* zone 1 over changing readings, with and without a manual override on    *)
(* outlet 1.                                                               *)
(***************************************************************************)
PassScenes == {1, 2}

ReadingZone1 == \E v \in TempValues, h \in HumValues : StoreReading(1, v, h)

ActivateScenePass == \E s \in PassScenes : activate_scene(s)

StartPass == start_automation_session(1, 1, 2)

InitPass ==
    /\ Fresh
    /\ readings = <<NoReading, NoReading>>
    /\ sensorZone = SensorZone
    /\ rules = ThermostatRules
    /\ outlets \in OutletConfigs
    /\ tuyaConfigured = TRUE
    /\ localOffset = 0
    /\ inflight = NoneInFlight
    /\ ticking = NotTicking

NextPass ==
    \/ Tick
    \/ StartPass
    \/ ReadingZone1
    \/ ActivateScenePass
    \/ Advance

SpecPass == InitPass /\ [][NextPass]_vars

(***************************************************************************)
(* SpecApply: execute_rule_action applied directly, again and again, to    *)
(* action maps of a rule.                                                  *)
(***************************************************************************)
ActionMaps ==
    <<  [on |-> <<Entry(1, TRUE)>>, off |-> <<>>],
        [on |-> <<>>, off |-> <<Entry(1, TRUE), Entry(2, TRUE)>>],
        [on |-> <<Entry(1, TRUE), Entry(2, TRUE)>>, off |-> <<Entry(1, TRUE)>>],
        [on |-> <<Entry(2, FALSE), Entry(3, TRUE)>>, off |-> <<Entry(3, FALSE)>>],
        [on |-> <<Entry(9, TRUE), Entry(3, TRUE), Entry(1, TRUE)>>,
         off |-> <<Entry(9, TRUE), Entry(2, TRUE)>>]  >>

ApplyAction(k, z) ==
    \E c \in execute_rule_action(ActionMaps[k], z, {Context}) :
        /\ Commit(c)
        /\ lastOp' = [Op("apply", TRUE, z, 0, c.cmds, <<>>) EXCEPT !.rule = k]
        /\ UNCHANGED <<now, killLog, mode, sceneActive, sessions, readings, tuyaConfigured, localOffset, inflight, ticking, sensorZone>>

Apply == \E k \in DOMAIN ActionMaps, z \in Zones : ApplyAction(k, z)

InitApply ==
    /\ Fresh
    /\ readings = <<NoReading, NoReading>>
    /\ sensorZone = SensorZone
    /\ rules = ThermostatRules
    /\ outlets = DefaultOutlets
    /\ tuyaConfigured \in BOOLEAN
    /\ localOffset = 0
    /\ inflight = NoneInFlight
    /\ ticking = NotTicking

NextApply == Apply

SpecApply == InitApply /\ [][NextApply]_vars

(***************************************************************************)
(* SpecDevices: the switch endpoints, the manual evaluation of a scene and *)
(* the scheduler's standalone passes.                                      *)
(***************************************************************************)
NextDevices ==
    \/ SwitchOutlet
    \/ SwitchAll
    \/ SwitchZone
    \/ ActivateScene
    \/ EvaluateScene
    \/ Tick

SpecDevices == Init /\ [][NextDevices]_vars

(***************************************************************************)
(* SpecGate: the kill switch against the HTTP endpoints: mutating requests *)
(* (start, stop, activate, zone switch), a GET (status poll) and the kill  *)
(* switch's own endpoints, sessions of zone 1.                             *)
(***************************************************************************)
StopZone1 == stop_automation_session(1)

StatusZone1 == get_zone_automation_status(1)

ActivateScene1 == activate_scene(1)

SwitchZone2 == \E b \in BOOLEAN : switch_zone_outlets(2, b)

NextGate ==
    \/ StartScene1
    \/ StopZone1
    \/ StatusZone1
    \/ ActivateScene1
    \/ SwitchZone2
    \/ KillStatus
    \/ KillActivate
    \/ KillDeactivate
    \/ Advance

SpecGate == Init /\ [][NextGate]_vars

(***************************************************************************)
(* Vocabulary of the properties.                                           *)
(***************************************************************************)
\* the latest row of the kill switch log is active
LatestKillRowActive == Len(killLog) > 0 /\ killLog[Len(killLog)]

\* session i is running and its elapsed time at minute t has reached its duration
Overdue(ss, i, t) ==
    /\ ss[i].is_active
    /\ ss[i].status = "running"
    /\ t - ss[i].started_at >= ss[i].duration_minutes

\* the commands operation op issued for outlet o
CmdsFor(op, o) == {k \in DOMAIN op.cmds : op.cmds[k].outlet = o}

Succeeded(cmd) == cmd.result \in {"ok", "simulated"}

AllSucceeded(op) == \A k \in DOMAIN op.cmds : Succeeded(op.cmds[k])

\* operation op is one that runs automation passes
IsPass(op) == op.name \in {"tick", "start"}

\* operation op ran the rules of scene s
RanPass(op, s) == \E k \in DOMAIN op.passes : op.passes[k].scene = s /\ op.passes[k].ran

\* rule i of scene s has a true condition on the stored readings
Matches(s, i) ==
    evaluate_scene_condition(rules[s][i].condition, get_zone_sensor_data(SceneZone[s]), now)

\* the list of an action map names outlet o of the zone with a true flag
Names(list, o, zone) ==
    /\ o \in OutletsOfZone(zone)
    /\ \E k \in DOMAIN list : list[k].id = o /\ list[k].flag

\* the action map wants outlet o in state w
Wants(action, o, w, zone) == Names(IF w THEN action.on ELSE action.off, o, zone)

(***************************************************************************)
(* C1. A scheduler tick that starts while the latest kill switch row is    *)
(* active issues no switch command, runs no evaluation pass and leaves     *)
(* every outlet's last_state, every session (status, is_active,            *)
(* last_evaluation_at) and every zone's mode as they were.                 *)
(***************************************************************************)
C1_KillSwitchStopsTick ==
    [][(lastOp'.name = "tick" /\ LatestKillRowActive) =>
          /\ lastOp'.cmds = <<>>
          /\ lastOp'.passes = <<>>
          /\ outlets' = outlets
          /\ sessions' = sessions
          /\ mode' = mode]_vars

\* a tick has run under the active kill switch (second row of the log, the
\* first one inactive) with an overdue running session and an active scene
C1_Witness ==
    /\ lastOp.name = "tick"
    /\ LatestKillRowActive
    /\ ~killLog[1]
    /\ \E i \in DOMAIN sessions : Overdue(sessions, i, now) /\ sceneActive[sessions[i].scene_id]

(***************************************************************************)
(* C2. After a pass of a scene in which two rules with true conditions     *)
(* want opposite states of one outlet, every command having succeeded,     *)
(* the outlet's last_state is what the rule of higher priority wants.      *)
(***************************************************************************)
C2_HigherPriorityWins ==
    \A s \in Scenes, o \in Outlets, w \in BOOLEAN :
        \A i, j \in DOMAIN rules[s] :
            (/\ IsPass(lastOp)
             /\ RanPass(lastOp, s)
             /\ AllSucceeded(lastOp)
             /\ Matches(s, i) /\ Matches(s, j)
             /\ rules[s][i].priority > rules[s][j].priority
             /\ Wants(rules[s][i].action, o, w, SceneZone[s])
             /\ ~Wants(rules[s][i].action, o, ~w, SceneZone[s])
             /\ Wants(rules[s][j].action, o, ~w, SceneZone[s]))
            => outlets[o].last_state = w

(***************************************************************************)
(* C3. When execute_rule_action is applied twice in a row with the same    *)
(* action maps and zone, every command of the first application having     *)
(* succeeded, the second application issues no command for an outlet whose *)
(* wanted state equals its last_state, and changes no last_state.          *)
(***************************************************************************)
WantedState(action, o, zone) ==
    IF Wants(action, o, FALSE, zone) THEN FALSE ELSE TRUE

C3_SecondApplicationIdle ==
    [][(/\ lastOp.name = "apply" /\ lastOp'.name = "apply"
        /\ lastOp'.rule = lastOp.rule /\ lastOp'.zone = lastOp.zone
        /\ AllSucceeded(lastOp)) =>
          /\ \A o \in Outlets :
                ((\E w \in BOOLEAN : Wants(ActionMaps[lastOp.rule], o, w, lastOp.zone))
                 /\ WantedState(ActionMaps[lastOp.rule], o, lastOp.zone) = outlets[o].last_state)
                => CmdsFor(lastOp', o) = {}
          /\ \A o \in Outlets : outlets'[o].last_state = outlets[o].last_state]_vars

(***************************************************************************)
(* C4. Every zone has at most one session with status running.             *)
(***************************************************************************)
C4_OneRunningSessionPerZone ==
    \A z \in Zones :
        Cardinality({i \in DOMAIN sessions :
                        sessions[i].zone_id = z /\ sessions[i].status = "running"}) <= 1

\* a start has just replaced the running session of its zone
C4_Witness ==
    /\ lastOp.name = "start" /\ lastOp.ok
    /\ \E i, j \in DOMAIN sessions :
          /\ i < j
          /\ sessions[i].zone_id = lastOp.zone /\ sessions[i].status = "stopped"
          /\ sessions[j].zone_id = lastOp.zone /\ sessions[j].status = "running"

(***************************************************************************)
(* C5. From manual zones without sessions on, a zone's mode is automatic   *)
(* exactly when a session with status running exists for the zone.         *)
(***************************************************************************)
C5_AutomaticIffRunning ==
    \A z \in Zones :
        mode[z] = "automatic" <=>
            \E i \in DOMAIN sessions : sessions[i].zone_id = z /\ sessions[i].status = "running"

\* a tick has just completed the session of one zone (back to manual) while
\* the other zone is automatic with its running session
C5_Witness ==
    /\ lastOp.name = "tick" /\ lastOp.ok
    /\ \E i, j \in DOMAIN sessions :
          /\ sessions[i].status = "completed" /\ mode[sessions[i].zone_id] = "manual"
          /\ sessions[i].last_evaluation_at # now
          /\ now - sessions[i].started_at = sessions[i].duration_minutes
          /\ sessions[j].status = "running" /\ mode[sessions[j].zone_id] = "automatic"

(***************************************************************************)
(* C6. A tick that runs with the kill switch inactive sets every running   *)
(* session whose elapsed time is at least its duration to completed        *)
(* (is_active false) and its zone to manual, and evaluates no such session.*)
(***************************************************************************)
C6_TickExpiresBeforeEvaluating ==
    [][(lastOp'.name = "tick" /\ ~LatestKillRowActive) =>
          \A i \in DOMAIN sessions :
              Overdue(sessions, i, now) =>
                  /\ sessions'[i].status = "completed"
                  /\ ~sessions'[i].is_active
                  /\ sessions'[i].last_evaluation_at = sessions[i].last_evaluation_at
                  /\ mode'[sessions[i].zone_id] = "manual"
                  /\ \A k \in DOMAIN lastOp'.passes :
                        ~(lastOp'.passes[k].kind = "session" /\ lastOp'.passes[k].session = i)]_vars

\* one tick has completed a session at exactly its duration and evaluated
\* the running session of the other zone
C6_Witness ==
    /\ lastOp.name = "tick"
    /\ \E i, j \in DOMAIN sessions :
          /\ sessions[i].status = "completed"
          /\ now - sessions[i].started_at = sessions[i].duration_minutes
          /\ mode[sessions[i].zone_id] = "manual"
          /\ sessions[j].status = "running" /\ sessions[j].last_evaluation_at = now
          /\ \E k \in DOMAIN lastOp.passes :
                /\ lastOp.passes[k].kind = "session" /\ lastOp.passes[k].session = j
                /\ lastOp.passes[k].ran

C8_LastStateIsConfirmed ==
    \A o \in Outlets : outlets[o].last_state = confirmed[o]

(***************************************************************************)
(* C9. In an automation pass, an outlet none of whose commands succeeded   *)
(* keeps its last_state; and a pass in which a matching rule wants a state *)
(* the outlet's last_state does not have (as after a failed command)       *)
(* issues the command for that state.                                      *)
(***************************************************************************)
C9_FailureKeepsStateAndRetries ==
    [][IsPass(lastOp') =>
          /\ \A o \in Outlets :
                (\A k \in CmdsFor(lastOp', o) : ~Succeeded(lastOp'.cmds[k]))
                => outlets'[o].last_state = outlets[o].last_state
          /\ \A s \in Scenes, o \in Outlets, w \in BOOLEAN :
                (/\ RanPass(lastOp', s)
                 /\ outlets[o].last_state # w
                 /\ \E i \in DOMAIN rules[s] :
                       Matches(s, i) /\ Wants(rules[s][i].action, o, w, SceneZone[s]))
                => \E k \in CmdsFor(lastOp', o) : lastOp'.cmds[k].state = w]_vars

\* a pass has issued a command for an outlet, the provider has failed or
\* raised, and last_state is still the confirmed state, not the wanted one
C9_Witness ==
    /\ IsPass(lastOp)
    /\ \E o \in Outlets, k \in DOMAIN lastOp.cmds :
          /\ lastOp.cmds[k].outlet = o
          /\ lastOp.cmds[k].result \in {"fail", "raise"}
          /\ outlets[o].last_state # lastOp.cmds[k].state
          /\ confirmed[o] = outlets[o].last_state

(***************************************************************************)
(* C10. An automation pass issues no command for an outlet whose           *)
(* manual_override is set with manual_override_until in the future, and    *)
(* leaves its last_state.                                                  *)
(***************************************************************************)
C10_OverrideSkipsOutlet ==
    [][IsPass(lastOp') =>
          \A o \in Outlets :
              (outlets[o].manual_override /\ outlets[o].manual_override_until > now)
              => /\ CmdsFor(lastOp', o) = {}
                 /\ outlets'[o].last_state = outlets[o].last_state]_vars

(***************************************************************************)
(* C11. A successful start for zone z with scene s stops the session of z  *)
(* that was running, appends exactly one session (running, is_active,      *)
(* scene s, zone z), sets the mode of z to automatic, calls                *)
(* process_scene_rules exactly once, for s, and leaves every other session *)
(* and the mode of every other zone as they were.                          *)
(***************************************************************************)
C11_StartTransition ==
    [][(lastOp'.name = "start" /\ lastOp'.ok) =>
          LET z == lastOp'.zone
              s == lastOp'.scene
              n == Len(sessions')
          IN /\ n = Len(sessions) + 1
             /\ sessions'[n].zone_id = z /\ sessions'[n].scene_id = s
             /\ sessions'[n].status = "running" /\ sessions'[n].is_active
             /\ \A i \in DOMAIN sessions :
                   IF sessions[i].zone_id = z /\ sessions[i].status = "running"
                   THEN sessions'[i].status = "stopped" /\ ~sessions'[i].is_active
                   ELSE sessions'[i] = sessions[i]
             /\ mode' = [mode EXCEPT ![z] = "automatic"]
             /\ Len(lastOp'.passes) = 1
             /\ lastOp'.passes[1].scene = s /\ lastOp'.passes[1].kind = "start"]_vars

\* a start has replaced the running session of its zone by a session on the
\* same zone and has run the rules of its scene
C11_Witness ==
    /\ lastOp.name = "start" /\ lastOp.ok
    /\ lastOp.passes[1].ran
    /\ \E i \in DOMAIN sessions :
          /\ i < Len(sessions)
          /\ sessions[i].zone_id = lastOp.zone /\ sessions[i].status = "stopped"
          /\ sessions[Len(sessions)].zone_id = lastOp.zone
          /\ sessions[Len(sessions)].status = "running"

(***************************************************************************)
(* C12. An activation while the latest row of the log is active, and a     *)
(* deactivation while the latest row is inactive or the log is empty, are  *)
(* rejected and add no row.                                                *)
(***************************************************************************)
C12_KillSwitchRejections ==
    [][/\ (lastOp'.name = "kill_activate" /\ LatestKillRowActive)
             => (~lastOp'.ok /\ killLog' = killLog)
       /\ (lastOp'.name = "kill_deactivate" /\ ~LatestKillRowActive)
             => (~lastOp'.ok /\ killLog' = killLog)]_vars

\* an activation has been rejected on a log whose second row is active
C12_Witness ==
    /\ lastOp.name = "kill_activate" /\ ~lastOp.ok
    /\ killLog = <<FALSE, TRUE>>

(***************************************************************************)
(* C13. The log is append-only: a step adds at most one row at the end and *)
(* changes no earlier row; a successful activation adds a row TRUE, a      *)
(* successful deactivation a row FALSE; and the scheduler and the gate of  *)
(* the mutating endpoints act on the latest row (inactive when empty).     *)
(***************************************************************************)
C13_AppendOnlyLog ==
    [][/\ \/ killLog' = killLog
          \/ /\ Len(killLog') = Len(killLog) + 1
             /\ \A i \in DOMAIN killLog : killLog'[i] = killLog[i]
       /\ (lastOp'.name = "kill_activate" /\ lastOp'.ok) => killLog' = Append(killLog, TRUE)
       /\ (lastOp'.name = "kill_deactivate" /\ lastOp'.ok) => killLog' = Append(killLog, FALSE)
       /\ lastOp'.name \in {"tick", "start", "activate_scene"}
             => (lastOp'.ok <=> ~LatestKillRowActive)]_vars

\* the switch has been activated, released and the scheduler has ticked on
\* the released switch
C13_Witness ==
    /\ killLog = <<TRUE, FALSE>>
    /\ lastOp.name = "tick" /\ lastOp.ok

(***************************************************************************)
(* C14. While the latest row of the log is active, a POST, PUT, DELETE or  *)
(* PATCH outside the whitelist (start, stop, scene activation, switch) is  *)
(* refused and changes no table; the deactivation of the kill switch is    *)
(* accepted, and a GET (the status poll) is served.                        *)
(***************************************************************************)
GatedOps == {"start", "stop", "activate_scene", "update_scene", "evaluate",
             "switch_outlet", "switch_all", "switch_zone"}

C14_GateBlocksMutations ==
    [][LatestKillRowActive =>
          /\ lastOp'.name \in GatedOps =>
                /\ ~lastOp'.ok
                /\ UNCHANGED <<now, killLog, mode, sceneActive, rules, sessions, outlets,
                               readings, tuyaConfigured, localOffset, inflight, confirmed, ticking, sensorZone>>
          /\ lastOp'.name = "kill_deactivate" => (lastOp'.ok /\ killLog' = Append(killLog, FALSE))
          /\ lastOp'.name = "status" => lastOp'.ok]_vars

\* under the active kill switch a status poll has been served and has
\* completed the overdue session of its zone
C14_Witness ==
    /\ LatestKillRowActive
    /\ lastOp.name = "status" /\ lastOp.ok
    /\ mode[lastOp.zone] = "manual"
    /\ \E i \in DOMAIN sessions :
          /\ sessions[i].zone_id = lastOp.zone /\ sessions[i].status = "completed"
          /\ now - sessions[i].started_at = sessions[i].duration_minutes

(***************************************************************************)
(* evaluate_scene_condition applied to the snapshot of zone 1.  The server *)
(* runs in UTC or one hour to either side of it; the reading of sensor 1   *)
(* is absent, or was stored before the first minute, or is stored now.     *)
(***************************************************************************)
LocalOffsets == {-60, 0, 60}

Conditions ==
    <<Cond("temperature", "<=", 180), Cond("temperature", ">", 180),
      Cond("humidity", ">=", 500), Cond("temperature", "==", 175),
      Cond("temperature", ">=", 0), Cond("humidity", "", 500),
      Cond("humidity", "<", 650), Cond("temperature", ">=", 182),
      Cond("temperature", "!=", 180), Cond("temperature", "<=", NonNumeric),
      Cond("pressure", ">=", 1), Cond("temperature", "<=", None), Cond("", "<=", 180)>>

EvaluateCondition(k) ==
    /\ lastOp' = [Op("condition",
                     evaluate_scene_condition(Conditions[k], get_zone_sensor_data(1), now),
                     1, 0, <<>>, <<>>) EXCEPT !.rule = k]
    /\ UNCHANGED <<now, killLog, mode, sceneActive, rules, sessions, outlets, readings,
                   tuyaConfigured, localOffset, inflight, confirmed, ticking, sensorZone>>

Condition == \E k \in DOMAIN Conditions : EvaluateCondition(k)

InitCondition ==
    /\ Fresh
    /\ \E v \in TempValues, h \in HumValues :
          readings \in {<<NoReading, NoReading>>,
                        <<ReadingRow(v, h, 0 - StaleAfter - 1), NoReading>>}
    /\ rules = ThermostatRules
    /\ outlets = DefaultOutlets
    /\ tuyaConfigured = TRUE
    /\ localOffset \in LocalOffsets
    /\ inflight = NoneInFlight
    /\ ticking = NotTicking
    /\ sensorZone = SensorZone

NextCondition == Condition \/ ReadingZone1 \/ Advance

SpecCondition == InitCondition /\ [][NextCondition]_vars

\* the reading of the metric of condition k is in the snapshot of zone 1 and
\* was observed more than 120 seconds before the clock's time
ObservedLongAgo(k) ==
    LET data == get_zone_sensor_data(1)
        metric == Conditions[k].condition
    IN  /\ SensorValue(metric, data) # None
        /\ now - SensorTimestamp(metric, data) > StaleAfter

\* C15: evaluate_scene_condition returns false for every condition whose
\* metric's reading was observed longer ago than 120 seconds, whatever the
\* reading's value, the operator and the threshold.
C15_StaleReadingIsFalse ==
    (lastOp.name = "condition" /\ ObservedLongAgo(lastOp.rule)) => ~lastOp.ok

(***************************************************************************)
(* An installation whose rules were all stored with the threshold 0: in    *)
(* scene 1 "temperature <= 0" switches outlet 1 on, in scene 2             *)
(* "humidity >= 0" switches outlet 2 on, in scene 3 "temperature >= 0"     *)
(* switches outlet 3 on.  No scene has ranges in its settings.             *)
(***************************************************************************)
ZeroRules ==
    <<  <<Rule(Cond("temperature", "<=", 0), <<Entry(1, TRUE)>>, <<>>, 1)>>,
        <<Rule(Cond("humidity", ">=", 0), <<Entry(2, TRUE)>>, <<>>, 0)>>,
        <<Rule(Cond("temperature", ">=", 0), <<Entry(3, TRUE)>>, <<>>, 0)>>  >>

InitZero ==
    /\ Fresh
    /\ readings = <<NoReading, NoReading>>
    /\ sensorZone = SensorZone
    /\ rules = ZeroRules
    /\ outlets = DefaultOutlets
    /\ tuyaConfigured = TRUE
    /\ localOffset = 0
    /\ inflight = NoneInFlight
    /\ ticking = NotTicking

SpecZero == InitZero /\ [][NextPass]_vars

AllThresholdsZero ==
    \A s \in Scenes : \A i \in DOMAIN rules[s] : rules[s][i].condition.value = 0

EvaluatedSession(op, i) ==
    \E k \in DOMAIN op.passes :
        /\ op.passes[k].kind = "session" /\ op.passes[k].session = i
        /\ op.passes[k].ran

\* C17: in a tick with the kill switch inactive, every running session that
\* has not reached its duration has the rules of its scene evaluated (and
\* their actions applied), whether or not the scene's is_active flag is set.
C17_TickEvaluatesRunningSessions ==
    [][(lastOp'.name = "tick" /\ ~LatestKillRowActive) =>
          \A i \in DOMAIN sessions :
              (/\ sessions[i].is_active /\ sessions[i].status = "running"
               /\ ~Overdue(sessions, i, now))
              => EvaluatedSession(lastOp', i)]_vars

(***************************************************************************)
(* Handlers at the grain of their await points.  A handler that has to     *)
(* switch an outlet of a tuya device awaits TuyaProvider.switch_outlet,    *)
(* which hands the command to an executor thread (run_in_executor): other  *)
(* requests are served until the handler resumes, and each request has its *)
(* own database session (get_db).  The steps below are those of            *)
(* execute_rule_action for an action map naming one outlet (as a pass runs *)
(* it), and of the switch endpoint of one outlet.                          *)
(***************************************************************************)
Awaiting(kind, o, want) ==
    [pc |-> "sent", kind |-> kind, outlet |-> o, want |-> want, result |-> ""]

\* execute_rule_action up to its await: the outlet is skipped when its
\* last_state, as read by this session, is the wanted state already
PassBegin(h, o, want) ==
    /\ inflight[h] = Idle
    /\ IF outlets[o].last_state = want
       THEN /\ inflight' = inflight
            /\ lastOp' = Op("pass_step", TRUE, OutletZone(o), 0, <<>>, <<>>)
       ELSE /\ inflight' = [inflight EXCEPT ![h] = Awaiting("pass", o, want)]
            /\ lastOp' = Op("pass_await", TRUE, OutletZone(o), 0, <<>>, <<>>)
    /\ UNCHANGED <<now, killLog, mode, sceneActive, rules, sessions, outlets, readings,
                   tuyaConfigured, localOffset, confirmed, ticking, sensorZone>>

\* devices.py switch_outlet up to its await
SwitchBegin(h, o, want) ==
    /\ inflight[h] = Idle
    /\ outlets[o].enabled
    /\ inflight' = [inflight EXCEPT ![h] = Awaiting("switch", o, want)]
    /\ lastOp' = Op("switch_await", TRUE, OutletZone(o), 0, <<>>, <<>>)
    /\ UNCHANGED <<now, killLog, mode, sceneActive, rules, sessions, outlets, readings,
                   tuyaConfigured, localOffset, confirmed, ticking, sensorZone>>

\* the executor thread sends the command: the provider executes or refuses it
ProviderExecutes(h) ==
    /\ inflight[h].pc = "sent"
    /\ \E r \in {"ok", "fail"} :
          /\ confirmed' = IF r = "ok"
                          THEN [confirmed EXCEPT ![inflight[h].outlet] = inflight[h].want]
                          ELSE confirmed
          /\ inflight' = [inflight EXCEPT ![h].pc = "answered", ![h].result = r]
    /\ lastOp' = Op("provider", TRUE, 0, 0, <<>>, <<>>)
    /\ UNCHANGED <<now, killLog, mode, sceneActive, rules, sessions, outlets, readings,
                   tuyaConfigured, localOffset, ticking, sensorZone>>

\* the handler resumes after its await: last_state on success, db.commit()
HandlerResumes(h) ==
    /\ inflight[h].pc = "answered"
    /\ outlets' = IF inflight[h].result = "ok"
                  THEN [outlets EXCEPT ![inflight[h].outlet].last_state = inflight[h].want]
                  ELSE outlets
    /\ inflight' = [inflight EXCEPT ![h] = Idle]
    /\ lastOp' = Op(inflight[h].kind, inflight[h].result = "ok", OutletZone(inflight[h].outlet), 0,
                    <<Cmd(inflight[h].outlet, inflight[h].want, inflight[h].result)>>, <<>>)
    /\ UNCHANGED <<now, killLog, mode, sceneActive, rules, sessions, readings,
                   tuyaConfigured, localOffset, confirmed, ticking, sensorZone>>

PassAwait == \E h \in Handlers, o \in OutletsOfZone(1), w \in BOOLEAN : PassBegin(h, o, w)

SwitchAwait == \E h \in Handlers, o \in OutletsOfZone(1), w \in BOOLEAN : SwitchBegin(h, o, w)

Executes == \E h \in Handlers : ProviderExecutes(h)

Resumes == \E h \in Handlers : HandlerResumes(h)

NextInterleave == PassAwait \/ SwitchAwait \/ Executes \/ Resumes

SpecInterleave == Init /\ [][NextInterleave]_vars

\* handler h is between its request and its commit, working on zone z
InFlight(h, z) == inflight[h].pc # "idle" /\ OutletZone(inflight[h].outlet) = z

\* C18: no two evaluation passes (or switch requests) for the same zone are
\* ever in flight at the same time, so that, whenever no handler is in
\* flight, every outlet's last_state is the state the provider last executed.
C18_PassesSerialised ==
    /\ \A z \in Zones : \A h1, h2 \in Handlers :
          (InFlight(h1, z) /\ InFlight(h2, z)) => h1 = h2
    /\ inflight = NoneInFlight =>
          \A o \in Outlets : outlets[o].last_state = confirmed[o]

\* session i is running at the tick's time and has not reached its duration
Due(i) ==
    /\ sessions[i].is_active /\ sessions[i].status = "running"
    /\ ~Overdue(sessions, i, now)

\* the tick recorded in op called process_scene_rules for session i and the
\* call returned; a call that raised leaves no entry
Returned(op, i) ==
    \E k \in DOMAIN op.passes :
        op.passes[k].kind = "session" /\ op.passes[k].session = i

\* C19: if, during a tick, the evaluation of one running session raises,
\* every other running session is still evaluated in that tick and its
\* last_evaluation_at update is persisted.
C19_FailureIsIsolated ==
    [][(lastOp'.name = "tick" /\ ~LatestKillRowActive) =>
          \A i, j \in DOMAIN sessions :
              (/\ i # j /\ Due(i) /\ Due(j)
               /\ ~Returned(lastOp', i))
              => /\ Returned(lastOp', j)
                 /\ sessions'[j].last_evaluation_at = now]_vars

\* the passes of the tick recorded in op that evaluated the rules of scene s
Evaluations(op, s) ==
    {k \in DOMAIN op.passes : op.passes[k].scene = s /\ op.passes[k].ran}

\* the sessions of scene s that are running and have not reached their duration
DueSessionsOf(s) == {i \in DOMAIN sessions : Due(i) /\ sessions[i].scene_id = s}

\* C20: in a tick with the kill switch inactive, the scene of a running
\* session is evaluated exactly once, by the session's pass and not by a
\* standalone pass, and an active scene that is not the scene of a running
\* session is evaluated exactly once.
C20_EvaluatedExactlyOnce ==
    [][(lastOp'.name = "tick" /\ ~LatestKillRowActive) =>
          \A s \in LifecycleScenes :
              /\ DueSessionsOf(s) # {} =>
                    /\ Cardinality(Evaluations(lastOp', s)) = 1
                    /\ \A k \in Evaluations(lastOp', s) : lastOp'.passes[k].kind = "session"
              /\ (DueSessionsOf(s) = {} /\ sceneActive[s]) =>
                    Cardinality(Evaluations(lastOp', s)) = 1]_vars

(***************************************************************************)
(* C21. Within one rule action, whatever the provider answers for the      *)
(* other outlets, every outlet of the zone that the on set names and that  *)
(* is off gets its on command, and every outlet that only the off set      *)
(* names and that is on gets its off command, each with a result entry.    *)
(***************************************************************************)
C21_FailureDoesNotBlock ==
    [][lastOp'.name = "apply" =>
          LET a == ActionMaps[lastOp'.rule]
              z == lastOp'.zone
          IN \A o \in Outlets :
                /\ (Wants(a, o, TRUE, z) /\ ~outlets[o].last_state)
                   => \E k \in CmdsFor(lastOp', o) : lastOp'.cmds[k].state = TRUE
                /\ (Wants(a, o, FALSE, z) /\ ~Wants(a, o, TRUE, z) /\ outlets[o].last_state)
                   => \E k \in CmdsFor(lastOp', o) : lastOp'.cmds[k].state = FALSE]_vars

\* an action whose first command failed or raised has gone on to command
\* another outlet
C21_Witness ==
    /\ lastOp.name = "apply"
    /\ Len(lastOp.cmds) >= 2
    /\ lastOp.cmds[1].result \in {"fail", "raise"}
    /\ lastOp.cmds[2].outlet # lastOp.cmds[1].outlet

(***************************************************************************)
(* C22. A session whose status is completed or stopped keeps that status   *)
(* (and stays inactive) in every step of start, stop, status poll and      *)
(* scheduler tick.                                                         *)
(***************************************************************************)
C22_TerminalStatuses ==
    [][\A i \in DOMAIN sessions :
          sessions[i].status \in {"completed", "stopped"} =>
              /\ sessions'[i].status = sessions[i].status
              /\ sessions'[i].is_active = sessions[i].is_active]_vars

\* a tick has run over a stopped session whose duration has elapsed, and
\* over a completed one
C22_Witness ==
    /\ lastOp.name = "tick" /\ lastOp.ok
    /\ \E i, j \in DOMAIN sessions :
          /\ sessions[i].status = "stopped"
          /\ now - sessions[i].started_at >= sessions[i].duration_minutes
          /\ sessions[j].status = "completed"

\* condition k names a metric, one of the five operators and a threshold
\* that is a number other than 0
WellFormed(k) ==
    /\ Conditions[k].condition \in {"temperature", "humidity"}
    /\ Conditions[k].operator \in {"<=", ">=", "<", ">", "=="}
    /\ Conditions[k].value \in Nat \ {0}

\* the snapshot of zone 1 holds a value for the metric of condition k that
\* was observed at most 120 seconds before the clock's time
ObservedLately(k) ==
    LET data == get_zone_sensor_data(1)
        metric == Conditions[k].condition
    IN  /\ SensorValue(metric, data) # None
        /\ now - SensorTimestamp(metric, data) <= StaleAfter

\* C23: for a well-formed condition and a snapshot holding a value of its
\* metric that is not stale, evaluate_scene_condition returns exactly the
\* truth value of (value operator threshold).
C23_ConditionIsComparison ==
    (lastOp.name = "condition" /\ WellFormed(lastOp.rule) /\ ObservedLately(lastOp.rule)) =>
        LET c == Conditions[lastOp.rule]
        IN lastOp.ok = Compare(c.operator, SensorValue(c.condition, get_zone_sensor_data(1)), c.value)

(***************************************************************************)
(* SpecInert: evaluate_scene_condition applied to the snapshot of zone 1,  *)
(* next to passes over scene 1 (activation, start, ticks) in a zone whose  *)
(* sensor has no reading until one is stored.                              *)
(***************************************************************************)
InitInert ==
    /\ Fresh
    /\ readings = <<NoReading, NoReading>>
    /\ sensorZone = SensorZone
    /\ rules = ThermostatRules
    /\ outlets = DefaultOutlets
    /\ tuyaConfigured = TRUE
    /\ localOffset = 0
    /\ inflight = NoneInFlight
    /\ ticking = NotTicking

NextInert == Condition \/ ReadingZone1 \/ ActivateScene1 \/ StartPass \/ Tick \/ Advance

SpecInert == InitInert /\ [][NextInert]_vars

\* condition k lacks a field, has a threshold that is not a number, names an
\* operator that is not one of the five, or names a metric of which the
\* snapshot of zone 1 holds no value
Inert(k) ==
    \/ Conditions[k].condition = ""
    \/ Conditions[k].operator \notin {"<=", ">=", "<", ">", "=="}
    \/ Conditions[k].value \in {None, NonNumeric}
    \/ SensorValue(Conditions[k].condition, get_zone_sensor_data(1)) = None

\* C24: evaluate_scene_condition returns false when the condition's metric
\* is absent from the snapshot, when the operator is unknown and when the
\* condition is malformed (missing field, non-numeric threshold); and a pass
\* over scenes of zones without any sensor data issues no command and
\* changes no outlet's last_state.
C24_InertWithoutData ==
    [][/\ (lastOp'.name = "condition" /\ Inert(lastOp'.rule)) => ~lastOp'.ok
       /\ (/\ IsPass(lastOp')
           /\ \A k \in DOMAIN lastOp'.passes :
                 get_zone_sensor_data(SceneZone[lastOp'.passes[k].scene]) = NoData)
          => /\ lastOp'.cmds = <<>>
             /\ \A o \in Outlets : outlets'[o].last_state = outlets[o].last_state]_vars

\* a condition with an unknown operator has been evaluated to false on a
\* fresh reading of its metric
C24_Witness ==
    /\ lastOp.name = "condition" /\ ~lastOp.ok
    /\ Conditions[lastOp.rule].operator = "!="
    /\ ObservedLately(lastOp.rule)

(***************************************************************************)
(* SpecThermostat: the passes of SpecPass over the thermostat rules        *)
(* (scene 1: rule A "temperature <= 18.0" switches outlet 1 on, priority   *)
(* 1; rule B "temperature >= 18.0" switches outlet 1 off, priority 2), on  *)
(* a server in UTC or one hour to either side of it.                       *)
(***************************************************************************)
InitThermostat ==
    /\ Fresh
    /\ readings = <<NoReading, NoReading>>
    /\ sensorZone = SensorZone
    /\ rules = ThermostatRules
    /\ outlets = DefaultOutlets
    /\ tuyaConfigured = TRUE
    /\ localOffset \in LocalOffsets
    /\ inflight = NoneInFlight
    /\ ticking = NotTicking

SpecThermostat == InitThermostat /\ [][NextPass]_vars

\* the snapshot of zone 1 holds a temperature observed at most 120 seconds ago
FreshTemperature ==
    LET data == get_zone_sensor_data(1)
    IN  /\ data.has_temperature
        /\ now - data.temperature_timestamp <= StaleAfter

\* operation op called process_scene_rules for scene s, flagged active
PassOver(op, s) == sceneActive[s] /\ \E k \in DOMAIN op.passes : op.passes[k].scene = s

\* C25: with rules A and B in scene 1, an evaluation pass of scene 1 with a
\* fresh temperature above 18.0 leaves outlet 1 off, and one with a fresh
\* temperature below 18.0 leaves it on, whatever the outlet's state before,
\* the commands succeeding.
C25_ThermostatScenario ==
    [][(/\ IsPass(lastOp') /\ PassOver(lastOp', 1) /\ AllSucceeded(lastOp')
        /\ FreshTemperature) =>
          /\ get_zone_sensor_data(1).temperature > 180 => ~outlets'[1].last_state
          /\ get_zone_sensor_data(1).temperature < 180 => outlets'[1].last_state]_vars

(***************************************************************************)
(* SpecScenes: the scene flags under activation, PUT updates of a scene    *)
(* and the kill switch.                                                    *)
(***************************************************************************)
NextScenes == ActivateScene \/ UpdateScene \/ KillActivate \/ KillDeactivate

SpecScenes == Init /\ [][NextScenes]_vars

(***************************************************************************)
(* C26. After activate_scene(s) succeeds, scene s is flagged active, every *)
(* other scene of its zone is flagged inactive, and the flags of the       *)
(* scenes of the other zones are as they were.                             *)
(***************************************************************************)
C26_ActivationIsExclusive ==
    [][(lastOp'.name = "activate_scene" /\ lastOp'.ok) =>
          LET s == lastOp'.scene
          IN /\ sceneActive'[s]
             /\ \A x \in Scenes \ {s} :
                   IF SceneZone[x] = SceneZone[s]
                   THEN ~sceneActive'[x]
                   ELSE sceneActive'[x] = sceneActive[x]]_vars

\* scene 1 has been activated: scene 2 of the same zone is inactive and
\* scene 3 of the other zone is still active
C26_Witness ==
    /\ lastOp.name = "activate_scene" /\ lastOp.ok /\ lastOp.scene = 1
    /\ sceneActive = <<TRUE, FALSE, TRUE>>

(***************************************************************************)
(* SpecRace: the tick at the grain of its database session.  The tick runs *)
(* in the scheduler's thread: it reads the running sessions (scheduler.py  *)
(* lines 31-34), marks the expired ones on its own objects and commits     *)
(* them at line 50; requests served by the application's thread (start and *)
(* stop of zone 1) may commit in between.                                  *)
(***************************************************************************)
TickReads ==
    /\ ticking = NotTicking
    /\ ~KillSwitchActive
    /\ ticking' = [pc |-> "expiring", at |-> now,
                   seen |-> {i \in DOMAIN sessions : Expired(sessions[i], now)}]
    /\ lastOp' = Op("tick_read", TRUE, 0, 0, <<>>, <<>>)
    /\ UNCHANGED <<now, killLog, mode, sceneActive, rules, sessions, outlets, readings,
                   tuyaConfigured, localOffset, inflight, confirmed, sensorZone>>

\* the flush of the expiry loop writes is_active and status of every session
\* the tick marked, and the mode of its zone; then the passes
TickCommits ==
    /\ ticking.pc = "expiring"
    /\ LET ss1 == [i \in DOMAIN sessions |->
                      IF i \in ticking.seen THEN Complete(sessions[i]) ELSE sessions[i]]
       IN \E loop \in BOOLEAN : \E c \in TickContexts(ss1, loop) :
             /\ Commit(c)
             /\ sessions' = IF loop THEN MarkEvaluated(ss1, ticking.at) ELSE ss1
             /\ mode' = [z \in Zones |->
                            IF \E i \in ticking.seen : sessions[i].zone_id = z
                            THEN "manual" ELSE mode[z]]
             /\ lastOp' = Op("tick", TRUE, 0, 0, c.cmds, c.passes)
    /\ ticking' = NotTicking
    /\ UNCHANGED <<now, killLog, sceneActive, readings, tuyaConfigured, localOffset, inflight, sensorZone>>

NextRace == TickReads \/ TickCommits \/ StartScene1 \/ StopZone1 \/ Advance

SpecRace == Init /\ [][NextRace]_vars

\* C27: under any interleaving of a tick with a start or a stop for the
\* same zone, once both have completed the zone's mode is automatic exactly
\* when the zone has a running session, and a session the request stopped
\* is not overwritten to completed by the tick.
C27_TickAgainstRequests ==
    /\ [](ticking = NotTicking =>
            \A z \in Zones :
                mode[z] = "automatic" <=>
                    \E i \in DOMAIN sessions :
                        sessions[i].zone_id = z /\ sessions[i].status = "running")
    /\ [][\A i \in DOMAIN sessions :
             sessions[i].status = "stopped" => sessions'[i].status = "stopped"]_vars

(***************************************************************************)
(* SpecRaceKill: the tick at the same grain against the kill switch: the   *)
(* tick reads the latest row once (scheduler.py lines 25-28), before its   *)
(* expiry loop; activations and deactivations may commit before it goes on.*)
(***************************************************************************)
NextRaceKill ==
    TickReads \/ TickCommits \/ ActivateScene1 \/ KillActivate \/ KillDeactivate \/ Advance

SpecRaceKill == Init /\ [][NextRaceKill]_vars

WantedByMatchingRule(op, o) ==
    \E s \in Scenes : \E i \in DOMAIN rules[s] : \E w \in BOOLEAN :
        /\ RanPass(op, s)
        /\ Matches(s, i)
        /\ Wants(rules[s][i].action, o, w, SceneZone[s])

\* C29: in an evaluation pass a rule whose condition is false issues no
\* command: every outlet that no matching rule sets true in its on or off
\* set receives no command and keeps its last_state.
C29_NoImplicitOff ==
    [][IsPass(lastOp') =>
          \A o \in Outlets :
              ~WantedByMatchingRule(lastOp', o) =>
                  /\ CmdsFor(lastOp', o) = {}
                  /\ outlets'[o].last_state = outlets[o].last_state]_vars

\* a pass of scene 1 has commanded outlet 1 and has left outlet 2, which is
\* on, without a command
C29_Witness ==
    /\ IsPass(lastOp) /\ RanPass(lastOp, 1)
    /\ CmdsFor(lastOp, 1) # {}
    /\ CmdsFor(lastOp, 2) = {}
    /\ outlets[2].last_state

\* the list names id with a true flag
Lists(list, id) == \E k \in DOMAIN list : list[k].id = id /\ list[k].flag

(***************************************************************************)
(* C30. An id in a rule action that is no outlet of the zone being         *)
(* evaluated (an unknown id, an outlet of another zone) is skipped: no     *)
(* command is issued for it and no outlet outside the zone changes its     *)
(* last_state; the other entries are processed (an outlet of the zone that *)
(* the on set names and that is off gets its on command) and the batch is  *)
(* reported as a success.                                                  *)
(***************************************************************************)
C30_ForeignIdsAreSkipped ==
    [][lastOp'.name = "apply" =>
          LET a == ActionMaps[lastOp'.rule]
              z == lastOp'.zone
          IN /\ \A k \in DOMAIN lastOp'.cmds : lastOp'.cmds[k].outlet \in OutletsOfZone(z)
             /\ \A o \in Outlets \ OutletsOfZone(z) :
                   outlets'[o].last_state = outlets[o].last_state
             /\ \A o \in OutletsOfZone(z) :
                   (Lists(a.on, o) /\ ~outlets[o].last_state)
                   => \E k \in CmdsFor(lastOp', o) : lastOp'.cmds[k].state = TRUE
             /\ lastOp'.ok]_vars

\* the action naming the unknown id 9 and outlet 3 of zone 2 has been
\* applied to zone 1 and has commanded outlet 1, named after them
C30_Witness ==
    /\ lastOp.name = "apply" /\ lastOp.zone = 1
    /\ Lists(ActionMaps[lastOp.rule].on, 9)
    /\ Lists(ActionMaps[lastOp.rule].on, 3)
    /\ CmdsFor(lastOp, 1) # {}
    /\ CmdsFor(lastOp, 3) = {}

(***************************************************************************)
(* The snapshot of a zone that holds more than one sensor.  Sensor.zone_id *)
(* is a plain foreign key: besides the seeded layout (one sensor in each   *)
(* zone) both sensors may sit in zone 1.                                   *)
(***************************************************************************)
InitSnapshot ==
    /\ Fresh
    /\ readings = <<NoReading, NoReading>>
    /\ sensorZone \in {SensorZone, <<1, 1>>}
    /\ rules = ThermostatRules
    /\ outlets = DefaultOutlets
    /\ tuyaConfigured = TRUE
    /\ localOffset = 0
    /\ inflight = NoneInFlight
    /\ ticking = NotTicking

NextSnapshot == Reading \/ Condition \/ Advance

SpecSnapshot == InitSnapshot /\ [][NextSnapshot]_vars

\* the sensors of zone z that hold a reading of the metric
SensorsWith(metric, z) ==
    {s \in Sensors : sensorZone[s] = z /\
        IF metric = "temperature" THEN readings[s].has_temperature
                                  ELSE readings[s].has_humidity}

\* sensor s holds the most recent reading of the metric in zone z
MostRecent(metric, z, s) ==
    /\ s \in SensorsWith(metric, z)
    /\ \A s2 \in SensorsWith(metric, z) : readings[s2].observed_at <= readings[s].observed_at

\* C31: the snapshot of a zone holds, for temperature and for humidity, the
\* value and the timestamp of the reading with the greatest observed_at among
\* the readings of all the sensors of the zone.
C31_SnapshotIsMostRecent ==
    \A z \in Zones :
        LET data == get_zone_sensor_data(z) IN
        /\ SensorsWith("temperature", z) # {} =>
              /\ data.has_temperature
              /\ \E s \in Sensors :
                    /\ MostRecent("temperature", z, s)
                    /\ data.temperature = readings[s].temperature
                    /\ data.temperature_timestamp = readings[s].observed_at
        /\ SensorsWith("humidity", z) # {} =>
              /\ data.has_humidity
              /\ \E s \in Sensors :
                    /\ MostRecent("humidity", z, s)
                    /\ data.humidity = readings[s].humidity
                    /\ data.humidity_timestamp = readings[s].observed_at

(***************************************************************************)
(* SpecLive: the sessions of zone 1 under a scheduler that keeps ticking   *)
(* (IntervalTrigger(seconds=300), scheduler.py lines 92-102) and a clock   *)
(* that keeps running.  A session is started only if its end lies within  *)
(* the modelled time.                                                      *)
(***************************************************************************)
StartWithinTime ==
    \E d \in Durations : now + d <= MaxTime /\ start_automation_session(1, 1, d)

NextLive ==
    \/ Tick
    \/ StartWithinTime
    \/ KillActivate
    \/ KillDeactivate
    \/ Advance

SpecLive == Init /\ [][NextLive]_vars /\ WF_vars(Tick) /\ WF_vars(Advance)

\* session i exists and has left the running state for a terminal one
Ended(i) ==
    /\ i \in DOMAIN sessions
    /\ ~sessions[i].is_active
    /\ sessions[i].status \in {"completed", "stopped"}

InitTied ==
    /\ Fresh
    /\ readings = <<NoReading, NoReading>>
    /\ sensorZone = SensorZone
    /\ rules =
        <<  <<Rule(Cond("temperature", "<=", 180), <<Entry(1, TRUE)>>, <<>>, 1),
              Rule(Cond("temperature", ">=", 180), <<>>, <<Entry(1, TRUE)>>, 1)>>,
            <<Rule(Cond("humidity", ">=", 500), <<Entry(2, TRUE)>>, <<>>, 0)>>,
            <<Rule(Cond("temperature", ">=", 180), <<Entry(3, TRUE)>>, <<>>, 0)>>  >>
    /\ outlets = DefaultOutlets
    /\ tuyaConfigured = TRUE
    /\ localOffset = 0
    /\ inflight = NoneInFlight
    /\ ticking = NotTicking

SpecTied == InitTied /\ [][NextPass]_vars

\* every command of the outcome c of a pass succeeded
CommandsSucceeded(c) == \A k \in DOMAIN c.cmds : c.cmds[k].result \in {"ok", "simulated"}

\* C33: with two matching rules of equal priority and conflicting actions on
\* one outlet, a pass over given rules, snapshot and outlet states has one
\* outcome: whichever order the store returns the tied rules in, the final
\* last_state of every outlet is the same (commands succeeding).
C33_TiedRulesDeterministic ==
    \A c1, c2 \in process_scene_rules(1, now, "tick", 0, Context) :
        CommandsSucceeded(c1) /\ CommandsSucceeded(c2) =>
            \A o \in Outlets : c1.outlets[o].last_state = c2.outlets[o].last_state

(***************************************************************************)
(* C34. If an outlet id is set true in both the on set and the off set of  *)
(* one rule's action, then after the action has been applied with every    *)
(* command succeeding the outlet's last_state is off, whatever it was       *)
(* before.                                                                  *)
(***************************************************************************)
C34_OnAndOffEndsOff ==
    [][(lastOp'.name = "apply" /\ AllSucceeded(lastOp')) =>
          \A o \in Outlets :
              (/\ Names(ActionMaps[lastOp'.rule].on, o, lastOp'.zone)
               /\ Names(ActionMaps[lastOp'.rule].off, o, lastOp'.zone))
              => ~outlets'[o].last_state]_vars

\* the action naming outlet 1 in both sets has been applied to zone 1: the
\* outlet was commanded on, then off, both commands succeeded
C34_Witness ==
    /\ lastOp.name = "apply" /\ lastOp.zone = 1 /\ lastOp.rule = 3
    /\ AllSucceeded(lastOp)
    /\ \E j, k \in CmdsFor(lastOp, 1) :
          j < k /\ lastOp.cmds[j].state /\ ~lastOp.cmds[k].state
    /\ ~outlets[1].last_state

(***************************************************************************)
(* C35. A stop request that reaches its handler (the kill switch gate is   *)
(* open) for a zone with a running session sets that session to stopped     *)
(* with is_active false and the zone to manual, leaves every other session  *)
(* alone, issues no device command and changes no outlet; for a zone with   *)
(* no running session it is rejected and changes nothing.                   *)
(***************************************************************************)
C35_StopTransition ==
    [][(lastOp'.name = "stop" /\ ~LatestKillRowActive) =>
          LET z == lastOp'.zone
              running == {i \in DOMAIN sessions :
                            /\ sessions[i].zone_id = z
                            /\ sessions[i].is_active
                            /\ sessions[i].status = "running"}
          IN /\ lastOp'.cmds = <<>> /\ lastOp'.passes = <<>>
             /\ outlets' = outlets /\ confirmed' = confirmed
             /\ IF running # {}
                THEN /\ lastOp'.ok
                     /\ \A i \in running :
                           sessions'[i].status = "stopped" /\ ~sessions'[i].is_active
                     /\ \A i \in DOMAIN sessions \ running : sessions'[i] = sessions[i]
                     /\ Len(sessions') = Len(sessions)
                     /\ mode' = [mode EXCEPT ![z] = "manual"]
                ELSE /\ ~lastOp'.ok
                     /\ sessions' = sessions /\ mode' = mode]_vars

\* a stop has ended the running session of its zone while a session of the
\* other zone goes on
C35_Witness ==
    /\ lastOp.name = "stop" /\ lastOp.ok
    /\ mode[lastOp.zone] = "manual"
    /\ \E i, j \in DOMAIN sessions :
          /\ sessions[i].zone_id = lastOp.zone /\ sessions[i].status = "stopped"
          /\ sessions[j].zone_id # lastOp.zone /\ sessions[j].status = "running"

(***************************************************************************)
(* SpecReject: start requests with any zone id and scene id, ids of rows   *)
(* that do not exist included, over an installation whose scene 2 has no   *)
(* rules.                                                                  *)
(***************************************************************************)
InitReject ==
    /\ Fresh
    /\ readings = <<ReadingRow(182, 600, 0), ReadingRow(180, 600, 0)>>
    /\ sensorZone = SensorZone
    /\ rules = OverlapRules
    /\ outlets = DefaultOutlets
    /\ tuyaConfigured = TRUE
    /\ localOffset = 0
    /\ inflight = NoneInFlight
    /\ ticking = NotTicking

NextReject ==
    \/ \E z \in Zones \cup {9}, s \in Scenes \cup {9} : start_automation_session(z, s, 2)
    \/ ActivateScene1
    \/ StopZone1
    \/ Tick
    \/ Advance

SpecReject == InitReject /\ [][NextReject]_vars

\* the zone does not exist, the scene does not exist, the scene belongs to
\* another zone, or the scene has no rules
Unacceptable(z, s) ==
    \/ z \notin Zones
    \/ s \notin Scenes
    \/ (s \in Scenes /\ SceneZone[s] # z)
    \/ (s \in Scenes /\ Len(rules[s]) = 0)

(***************************************************************************)
(* C36. A start request for a zone that does not exist, a scene that does  *)
(* not exist, a scene of another zone or a scene without rules is rejected *)
(* with no state change: no session is created or altered (a running       *)
(* session of the zone stays running), no zone's mode changes, no device   *)
(* command is issued and no pass runs.                                     *)
(***************************************************************************)
C36_RejectedStartChangesNothing ==
    [][(lastOp'.name = "start" /\ Unacceptable(lastOp'.zone, lastOp'.scene)) =>
          /\ ~lastOp'.ok
          /\ sessions' = sessions
          /\ mode' = mode
          /\ outlets' = outlets /\ confirmed' = confirmed /\ rules' = rules
          /\ lastOp'.cmds = <<>> /\ lastOp'.passes = <<>>]_vars

\* a start naming the scene without rules has been rejected while a session
\* of the zone is running
C36_Witness ==
    /\ lastOp.name = "start" /\ ~lastOp.ok
    /\ lastOp.zone = 1 /\ lastOp.scene = 2
    /\ \E i \in DOMAIN sessions :
          sessions[i].zone_id = 1 /\ sessions[i].is_active /\ sessions[i].status = "running"
    /\ mode[1] = "automatic"

(***************************************************************************)
(* SpecDisabled: automation passes of the scenes of zone 1 when outlet 1,  *)
(* which rule 1 of scene 1 switches on, has its enabled flag false.        *)
(***************************************************************************)
InitDisabled ==
    /\ Fresh
    /\ readings = <<NoReading, NoReading>>
    /\ sensorZone = SensorZone
    /\ rules = ThermostatRules
    /\ outlets = [DefaultOutlets EXCEPT ![1] = OutletRow(FALSE, FALSE, None)]
    /\ tuyaConfigured = TRUE
    /\ localOffset = 0
    /\ inflight = NoneInFlight
    /\ ticking = NotTicking

SpecDisabled == InitDisabled /\ [][NextPass]_vars

(***************************************************************************)
(* C37. No operation issues a switch command for an outlet whose enabled   *)
(* flag is false or changes its last_state; an automation pass leaves it   *)
(* alone.                                                                  *)
(***************************************************************************)
C37_DisabledOutletsUntouched ==
    [][\A o \in Outlets :
          ~outlets[o].enabled =>
              /\ CmdsFor(lastOp', o) = {}
              /\ outlets'[o].last_state = outlets[o].last_state]_vars

(***************************************************************************)
(* C38. Every change of an outlet's last_state made by the engine (a pass  *)
(* of a tick or of a start) comes with one notification for that outlet    *)
(* published to the subscribers of the event stream.                       *)
(***************************************************************************)
C38_ChangesArePublished ==
    [][(lastOp'.name \in {"tick", "start"}) =>
          \A o \in Outlets :
              outlets'[o].last_state # outlets[o].last_state =>
                  Cardinality({k \in DOMAIN lastOp'.events : lastOp'.events[k].outlet = o}) = 1]_vars

(***************************************************************************)
(* C39. In every reachable state and for every session, is_active is true  *)
(* exactly when status is running: creation, supersession, stop, expiry by *)
(* a tick and expiry by a status poll change the two fields together.      *)
(***************************************************************************)
C39_ActiveIffRunning ==
    \A i \in DOMAIN sessions : sessions[i].is_active <=> (sessions[i].status = "running")

\* a status poll has answered while a stopped session and a completed one
\* are stored
C39_Witness ==
    /\ lastOp.name = "status"
    /\ \E i, j \in DOMAIN sessions :
          /\ sessions[i].status = "stopped" /\ ~sessions[i].is_active
          /\ sessions[j].status = "completed" /\ ~sessions[j].is_active
====
